---- MODULE Spec2Model ----
(***************************************************************************)
(* The ingestion -> segmentation -> paced-dispatch -> idle-watchdog        *)
(* pipeline of src/components/DatabaseBridge.tsx (first DatabaseBridge     *)
(* component, lines 1-328), as a state machine.                            *)
(*                                                                         *)
(* JavaScript runs every callback to its next await without interruption,  *)
(* so one action is one such run: a timer callback, a promise             *)
(* continuation, a React effect run, or a step of the environment (the     *)
(* upstream table, the downstream channel, the clock).                     *)
(*                                                                         *)
(* client.status and the React state `connected` change together, in the   *)
(* step that runs the effects, and a push notification is delivered in the *)
(* step of the write it reports (a row that arrives late or out of order   *)
(* comes from a query of fetchLatest() in flight, which calls the same     *)
(* handler).  A setTimeout is pending until the step that runs its         *)
(* callback; the activity clock is read in steps of Quantum milliseconds.  *)
(***************************************************************************)
EXTENDS Integers, Sequences, FiniteSets, TLC

(***************************************************************************)
(* Bounds of the model.                                                    *)
(***************************************************************************)
MaxLoops == 2      \* processQueueLoop instances pending at the same time
MaxChunks == 3     \* chunks appended to the queue between two session resets
MaxTimers == 1     \* pending re-trigger timers
MaxSentences == 3  \* sentences of a text handed to segmentText on its own
MaxWords == 3      \* words of a chunk in an iteration of the loop on its own

(***************************************************************************)
(* Constants of the program.                                               *)
(***************************************************************************)
IdleMs == 6000         \* timeSinceActivity > 6000
SOFT_LIMIT == 80
HARD_LIMIT == 180

Quantum == IdleMs      \* the grain of the activity clock

VARIABLES
  connected,        \* React state `connected`, as the running effects captured it
  queue,            \* queueRef.current
  isProcessing,     \* isProcessingRef.current
  shouldBuffer,     \* shouldBufferRef.current
  sinceActivity,    \* Date.now() - lastActivityRef.current, saturating above IdleMs
  lastProcessedId,  \* lastProcessedIdRef.current, 0 for null
  loops,            \* how many processQueueLoop instances wait at each await
  retrig,           \* pending setTimeout(processQueueLoop, 50) timers
  db,               \* the row of eburon_tts_current
  fetches,          \* rows of fetchLatest() queries in flight
  language,         \* useSettings().language, and languageRef.current
  detectedLanguage, \* useSettings().detectedLanguage
  text,             \* segmentText called on its own: its argument
  returned,         \* and what it returned
  voiceStyle,       \* voiceStyleRef.current
  iteration,        \* an iteration of the while loop on its own: its locals
  \* history, read by the properties only
  carry,            \* a loop instance was pending when the session effect last ran
  appended,         \* chunks appended since the session effect last ran
  dispatched,       \* the sends that returned since the session effect last ran
  prerolls,         \* pre-roll suspensions begun since then: 0, 1, 2 for more
  buffered,         \* one of those pre-roll suspensions has ended
  failed,           \* client.send has thrown for the entry at the head of the queue
  turns,            \* what the last step appended to useLogStore's turns
  tools,            \* useTools' tools
  event             \* what the last step did

vars == <<connected, queue, isProcessing, shouldBuffer, sinceActivity,
          lastProcessedId, loops, retrig, db, fetches, language,
          detectedLanguage, text, returned, voiceStyle, iteration, carry,
          appended, dispatched, prerolls, buffered, failed, turns, tools, event>>

\* client.status
status == IF connected THEN "connected" ELSE "disconnected"

(***************************************************************************)
(* The pending instances of processQueueLoop.  An instance waits at the    *)
(* pre-roll await or at the pacing await; it is stale when the session     *)
(* effect has run since it started.  Instances that wait at the same await *)
(* and are equally stale do not differ, so the model counts them.          *)
(*                                                                         *)
(* The pre-roll lasts IdleMs, the watchdog's threshold, and timers fire in *)
(* the order they are due: a pre-roll that began no later than the         *)
(* activity clock was last set ("preroll") ends before the clock passes    *)
(* the threshold; one that began after it ("prerollLate") may not.  The    *)
(* pacing delay grows with the chunk and the re-trigger delay is short:    *)
(* neither is ordered with the clock.                                      *)
(***************************************************************************)
LoopKinds == {"preroll", "prerollLate", "pacing"} \X BOOLEAN

NoLoops == [k \in LoopKinds |-> 0]

Suspend(l, pc, stale) == [l EXCEPT ![<<pc, stale>>] = @ + 1]

Resume(l, pc, stale) == [l EXCEPT ![<<pc, stale>>] = @ - 1]

Pending(l) ==
  l[<<"preroll", FALSE>>] + l[<<"preroll", TRUE>>]
  + l[<<"prerollLate", FALSE>>] + l[<<"prerollLate", TRUE>>]
  + l[<<"pacing", FALSE>>] + l[<<"pacing", TRUE>>]

(***************************************************************************)
(* Texts.  A text is the sequence of the sentences the sentence splitter   *)
(* finds in it; the empty string is the empty sequence.  A sentence is     *)
(* known by its trimmed length (0: whitespace only), by whether            *)
(* whitespace surrounds it, and by whether it matches the speaker prefix   *)
(* /^([A-Z][a-zA-Z0-9\s\(\)]+):/.  A chunk is the sequence of trimmed      *)
(* sentences joined by single spaces.                                      *)
(***************************************************************************)
Sentence(len, pad, spk) == [len |-> len, pad |-> pad, spk |-> spk]

\* a slip: the sentence used as the splitter gave it
trimNothing(s) == s

trim(s) == [s EXCEPT !.pad = FALSE]

\* a slip: the speaker prefix never looked for
charRegexNever(s) == FALSE

\* charRegex.test(cleanSentence)
charRegexTest(s) == s.spk

RECURSIVE ChunkLen(_)
ChunkLen(c) ==
  IF c = <<>> THEN 0
  ELSE IF Len(c) = 1 THEN c[1].len
  ELSE ChunkLen(SubSeq(c, 1, Len(c) - 1)) + 1 + c[Len(c)].len

\* a slip: the soft limit never looked at
overSoftLimitNever(currentChunk) == FALSE

\* currentChunk.length > SOFT_LIMIT
overSoftLimit(currentChunk) == ChunkLen(currentChunk) > SOFT_LIMIT

RECURSIVE foldSentences(_, _, _)
foldSentences(sentences, chunks, currentChunk) ==
  IF sentences = <<>>
  THEN IF ChunkLen(currentChunk) > 0 THEN Append(chunks, currentChunk) ELSE chunks
  ELSE LET cleanSentence == trim(Head(sentences))
           rest == Tail(sentences)
           startsWithCharacter == charRegexTest(cleanSentence)
           potentialLength == ChunkLen(currentChunk) + cleanSentence.len
       IN IF cleanSentence.len = 0 THEN foldSentences(rest, chunks, currentChunk)
          ELSE IF ChunkLen(currentChunk) > 0
          THEN IF startsWithCharacter
               THEN foldSentences(rest, Append(chunks, currentChunk), <<cleanSentence>>)
               ELSE IF potentialLength > HARD_LIMIT
               THEN foldSentences(rest, Append(chunks, currentChunk), <<cleanSentence>>)
               ELSE IF overSoftLimit(currentChunk)
               THEN foldSentences(rest, Append(chunks, currentChunk), <<cleanSentence>>)
               ELSE foldSentences(rest, chunks, Append(currentChunk, cleanSentence))
          ELSE foldSentences(rest, chunks, <<cleanSentence>>)

\* a slip: the loop over the sentences starts at the second
segmentTextSkipsFirst(txt) ==
  IF txt = <<>> THEN <<>> ELSE foldSentences(Tail(txt), <<>>, <<>>)

segmentText(txt) ==
  IF txt = <<>> THEN <<>> ELSE foldSentences(txt, <<>>, <<>>)

(***************************************************************************)
(* The rows the upstream table may hold.                                   *)
(***************************************************************************)
Plain == Sentence(120, TRUE, FALSE)
Spoken == Sentence(30, TRUE, TRUE)

\* null, for the language fields of a row and for detectedLanguage
Null == "null"

SUPPORTED_LANGUAGES ==
  {"Tagalog (Taglish)", "Tagalog", "English (US)", "English (UK)", "Spanish",
   "Japanese", "Korean"}

Row(id, translated, source) ==
  [id |-> id, translated_text |-> translated, source_text |-> source,
   target_language |-> Null, source_lang_label |-> Null]

\* a row with its language fields set
LangRow(id, source, target, label) ==
  [Row(id, <<>>, source) EXCEPT !.target_language = target,
                               !.source_lang_label = label]

Records ==
  { Row(1, <<>>, <<Plain>>),
    Row(2, <<Plain, Spoken>>, <<Plain>>) }

NoRecord == Row(0, <<>>, <<>>)

\* rows that say a language, one of them with a translation, a row of
\* white space that says languages the program does not support, and a row
\* with no text but a translation of white space
Blank == Sentence(0, TRUE, FALSE)

IngestRecords ==
  { LangRow(1, <<Plain>>, "Spanish", "Korean"),
    [LangRow(2, <<Plain, Spoken>>, Null, "Japanese")
       EXCEPT !.translated_text = <<Plain>>],
    LangRow(3, <<Blank>>, "Klingon", "Elvish"),
    Row(4, <<Blank>>, <<>>) }

\* the languages the user picks in the settings
LanguageChoices == {"Tagalog (Taglish)", "Japanese"}

(***************************************************************************)
(* The refs the handlers read and write, as one record, so that a handler  *)
(* is a function from the refs before it to the refs after it and a call   *)
(* of one handler by another is the composition.                           *)
(***************************************************************************)
Cur ==
  [queue |-> queue, isProcessing |-> isProcessing, shouldBuffer |-> shouldBuffer,
   sinceActivity |-> sinceActivity, lastProcessedId |-> lastProcessedId,
   loops |-> loops, retrig |-> retrig, appended |-> appended,
   language |-> language, detectedLanguage |-> detectedLanguage,
   dispatched |-> dispatched, prerolls |-> prerolls, buffered |-> buffered,
   failed |-> failed, turns |-> <<>>, event |-> "none"]

\* the refs after a handler; the handler's result is computed once.  No
\* handler touches the argument and the result of a call of segmentText on
\* its own, or the locals of an iteration on its own.
Commit(s) ==
  \E r \in {s} :
    /\ UNCHANGED <<text, returned, voiceStyle, iteration, tools>>
    /\ queue' = r.queue
    /\ isProcessing' = r.isProcessing
    /\ shouldBuffer' = r.shouldBuffer
    /\ sinceActivity' = r.sinceActivity
    /\ lastProcessedId' = r.lastProcessedId
    /\ loops' = r.loops
    /\ retrig' = r.retrig
    /\ appended' = r.appended
    /\ dispatched' = r.dispatched
    /\ prerolls' = r.prerolls
    /\ buffered' = r.buffered
    /\ language' = r.language
    /\ detectedLanguage' = r.detectedLanguage
    /\ failed' = r.failed
    /\ turns' = r.turns
    /\ event' = r.event

\* lastActivityRef.current = Date.now()
setLastActivity(s) ==
  [s EXCEPT !.sinceActivity = 0,
            !.loops = [k \in LoopKinds |->
                         IF k[1] = "preroll" THEN @[k] + @[<<"prerollLate", k[2]>>]
                         ELSE IF k[1] = "prerollLate" THEN 0
                         ELSE @[k]]]

(***************************************************************************)
(* processQueueLoop, in the pieces between its awaits.                     *)
(***************************************************************************)
\* a slip: the flag not released on the way out
finallyBlockKeepsFlag(s) ==
  IF Len(s.queue) > 0 /\ status = "connected"
  THEN [s EXCEPT !.retrig = @ + 1]
  ELSE s

\* a slip: the re-trigger left out
finallyBlockNoRetrigger(s) == [s EXCEPT !.isProcessing = FALSE]

\* the finally block
finallyBlock(s) ==
  LET s1 == [s EXCEPT !.isProcessing = FALSE]
  IN IF Len(s1.queue) > 0 /\ status = "connected"
     THEN [s1 EXCEPT !.retrig = @ + 1]
     ELSE s1

\* the entry addTurn appends to the turn log
addTurn(scriptedText) == [role |-> "system", text |-> scriptedText]

\* "(Auto-Producer) Injecting Filler Segment..."
Filler == [n |-> 0, id |-> 0, k |-> 0, open |-> TRUE]

\* a slip: pop() where shift() is meant
shiftLast(q) == [item |-> q[Len(q)], rest |-> SubSeq(q, 1, Len(q) - 1)]

\* queueRef.current.shift(): the entry it removes and the queue it leaves
shift(q) == [item |-> Head(q), rest |-> Tail(q)]

\* what a send that returns is recorded as: by a stale instance or not,
\* for an entry whose send has thrown before or not
sendEvent(s, stale) ==
  IF s.failed THEN (IF stale THEN "staleResent" ELSE "resent")
  ELSE (IF stale THEN "staleSent" ELSE "sent")

SendEvents == {"sent", "staleSent", "resent", "staleResent"}

\* a slip: the while loop does not consult client.status
whileLoopAnyStatus(s, stale, ok) ==
  IF Len(s.queue) > 0
  THEN LET rawText == s.queue[1]
       IN IF ok
          THEN [setLastActivity(s) EXCEPT
                  !.dispatched = Append(@, [sent |-> rawText,
                                            shifted |-> shift(s.queue).item]),
                  !.queue = shift(@).rest,
                  !.loops = Suspend(@, "pacing", stale),
                  !.failed = FALSE,
                  !.turns = <<addTurn(rawText)>>,
                  !.event = sendEvent(s, stale)]
          ELSE finallyBlock([s EXCEPT !.failed = TRUE,
                                      !.turns = <<addTurn(rawText)>>,
                                      !.event = "throw"])
  ELSE finallyBlock(s)

\* a slip: a throw of client.send leaves the function past the finally block
whileLoopThrowLeaks(s, stale, ok) ==
  IF Len(s.queue) > 0 /\ status = "connected"
  THEN LET rawText == s.queue[1]
       IN IF ok
          THEN [setLastActivity(s) EXCEPT
                  !.dispatched = Append(@, [sent |-> rawText,
                                            shifted |-> shift(s.queue).item]),
                  !.queue = shift(@).rest,
                  !.loops = Suspend(@, "pacing", stale),
                  !.failed = FALSE,
                  !.turns = <<addTurn(rawText)>>,
                  !.event = sendEvent(s, stale)]
          ELSE [s EXCEPT !.failed = TRUE,
                         !.turns = <<addTurn(rawText)>>,
                         !.event = "throw"]
  ELSE finallyBlock(s)

\* From the head of the while loop to the next await or to the end of the
\* function, for an instance that is stale or not.  ok: client.send returns.
\* segmentText yields no empty chunk, so the branch that drops one is never
\* taken.
whileLoop(s, stale, ok) ==
  IF Len(s.queue) > 0 /\ status = "connected"
  THEN LET rawText == s.queue[1]
       IN IF ok
          THEN [setLastActivity(s) EXCEPT
                  !.dispatched = Append(@, [sent |-> rawText,
                                            shifted |-> shift(s.queue).item]),
                  !.queue = shift(@).rest,
                  !.loops = Suspend(@, "pacing", stale),
                  !.failed = FALSE,
                  !.turns = <<addTurn(rawText)>>,
                  !.event = sendEvent(s, stale)]
          ELSE finallyBlock([s EXCEPT !.failed = TRUE,
                                      !.turns = <<addTurn(rawText)>>,
                                      !.event = "throw"])
  ELSE finallyBlock(s)

\* a pre-roll begins when the clock is set, in processNewData, or after it
preRollKind(s) == IF s.event = "pushed" THEN "preroll" ELSE "prerollLate"

\* a slip: the guard on isProcessingRef left out
processQueueLoopUnguarded(s, ok) ==
  IF Pending(s.loops) >= MaxLoops THEN [s EXCEPT !.event = "overflow"]
  ELSE LET s1 == [s EXCEPT !.isProcessing = TRUE]
       IN IF s1.shouldBuffer
          THEN [s1 EXCEPT !.loops = Suspend(@, preRollKind(s), FALSE),
                          !.prerolls = IF @ < 2 THEN @ + 1 ELSE @]
          ELSE whileLoop(s1, FALSE, ok)

\* the call of processQueueLoop, to its first await
processQueueLoop(s, ok) ==
  IF s.isProcessing THEN [s EXCEPT !.event = "busy"]
  ELSE IF Pending(s.loops) >= MaxLoops THEN [s EXCEPT !.event = "overflow"]
  ELSE LET s1 == [s EXCEPT !.isProcessing = TRUE]
       IN IF s1.shouldBuffer
          THEN [s1 EXCEPT !.loops = Suspend(@, preRollKind(s), FALSE),
                          !.prerolls = IF @ < 2 THEN @ + 1 ELSE @]
          ELSE whileLoop(s1, FALSE, ok)

\* after the pre-roll await
afterPreRoll(s, stale, ok) ==
  whileLoop([s EXCEPT !.shouldBuffer = FALSE,
                      !.buffered = @ \/ ~stale], stale, ok)

(***************************************************************************)
(* processNewData.                                                         *)
(***************************************************************************)
\* the auto detection at its head; setLanguage reaches languageRef with the
\* render that follows
\* a slip: the language fields taken without a look at SUPPORTED_LANGUAGES
detectLanguageUnvalidated(s, data) ==
  IF data.target_language # Null
  THEN IF s.language # data.target_language
       THEN [s EXCEPT !.language = data.target_language,
                      !.detectedLanguage = data.target_language]
       ELSE s
  ELSE IF data.source_lang_label # Null
  THEN [s EXCEPT !.detectedLanguage = data.source_lang_label]
  ELSE s

detectLanguage(s, data) ==
  IF data.target_language # Null /\ data.target_language \in SUPPORTED_LANGUAGES
  THEN IF s.language # data.target_language
       THEN [s EXCEPT !.language = data.target_language,
                      !.detectedLanguage = data.target_language]
       ELSE s
  ELSE IF data.source_lang_label # Null /\ data.source_lang_label \in SUPPORTED_LANGUAGES
  THEN [s EXCEPT !.detectedLanguage = data.source_lang_label]
  ELSE s

\* a slip: the translation taken without trim()
textToReadUntrimmed(data) ==
  IF data.translated_text # <<>>
  THEN data.translated_text
  ELSE data.source_text

textToRead(data) ==
  IF data.translated_text # <<>> /\ \E k \in 1..Len(data.translated_text) :
                                        data.translated_text[k].len > 0
  THEN data.translated_text
  ELSE data.source_text

\* the queue entries of a row's chunks; the text of entry c is
\* segmentText(textToRead(row))[c.k], and c.open tells whether the channel
\* was open when it was appended
Chunks(s, data, segments) ==
  [k \in 1..Len(segments) |->
     [n |-> s.appended + k, id |-> data.id, k |-> k, open |-> connected]]

\* a slip: unshift(...segments) where push(...segments) is meant
processNewDataUnshift(s0, data, ok) ==
  LET s == detectLanguage(s0, data)
  IN IF textToRead(data) = <<>> THEN [s EXCEPT !.event = "ignored"]
     ELSE IF s.lastProcessedId = data.id THEN [s EXCEPT !.event = "duplicate"]
     ELSE LET s1 == [s EXCEPT !.lastProcessedId = data.id]
              segments == segmentText(textToRead(data))
          IN IF Len(segments) > 0
             THEN processQueueLoop([setLastActivity(s1) EXCEPT
                                      !.queue = Chunks(s, data, segments) \o @,
                                      !.appended = @ + Len(segments),
                                      !.event = "pushed"], ok)
             ELSE s1

\* a slip: the loop not started after the push
processNewDataNoStart(s0, data, ok) ==
  LET s == detectLanguage(s0, data)
  IN IF textToRead(data) = <<>> THEN [s EXCEPT !.event = "ignored"]
     ELSE IF s.lastProcessedId = data.id THEN [s EXCEPT !.event = "duplicate"]
     ELSE LET s1 == [s EXCEPT !.lastProcessedId = data.id]
              segments == segmentText(textToRead(data))
          IN IF Len(segments) > 0
             THEN [setLastActivity(s1) EXCEPT
                     !.queue = @ \o Chunks(s, data, segments),
                     !.appended = @ + Len(segments),
                     !.event = "pushed"]
             ELSE s1

\* a slip: the test on lastProcessedIdRef left out
processNewDataNoDedup(s0, data, ok) ==
  LET s == detectLanguage(s0, data)
  IN IF textToRead(data) = <<>> THEN [s EXCEPT !.event = "ignored"]
     ELSE LET s1 == [s EXCEPT !.lastProcessedId = data.id]
              segments == segmentText(textToRead(data))
          IN IF Len(segments) > 0
             THEN processQueueLoop([setLastActivity(s1) EXCEPT
                                      !.queue = @ \o Chunks(s, data, segments),
                                      !.appended = @ + Len(segments),
                                      !.event = "pushed"], ok)
             ELSE s1

processNewData(s0, data, ok) ==
  LET s == detectLanguage(s0, data)
  IN IF textToRead(data) = <<>> THEN [s EXCEPT !.event = "ignored"]
     ELSE IF s.lastProcessedId = data.id THEN [s EXCEPT !.event = "duplicate"]
     ELSE LET s1 == [s EXCEPT !.lastProcessedId = data.id]
              segments == segmentText(textToRead(data))
          IN IF Len(segments) > 0
             THEN processQueueLoop([setLastActivity(s1) EXCEPT
                                      !.queue = @ \o Chunks(s, data, segments),
                                      !.appended = @ + Len(segments),
                                      !.event = "pushed"], ok)
             ELSE s1

(***************************************************************************)
(* The watchdog's interval callback.  The failure of client.send is        *)
(* modelled where the program handles it, in the loop; here it returns.    *)
(***************************************************************************)
\* a slip: the test of the queue left out
watchdogAnyQueue(s) ==
  IF ~connected \/ status # "connected" THEN [s EXCEPT !.event = "idle"]
  ELSE IF s.sinceActivity > IdleMs /\ ~s.isProcessing
  THEN [setLastActivity(s) EXCEPT !.turns = <<addTurn(Filler)>>,
                                  !.event = "filler"]
  ELSE [s EXCEPT !.event = "idle"]

\* a slip: lastActivityRef not set after the send
watchdogKeepsClock(s) ==
  IF ~connected \/ status # "connected" THEN [s EXCEPT !.event = "idle"]
  ELSE IF Len(s.queue) = 0 /\ s.sinceActivity > IdleMs /\ ~s.isProcessing
  THEN [s EXCEPT !.turns = <<addTurn(Filler)>>, !.event = "filler"]
  ELSE [s EXCEPT !.event = "idle"]

\* a slip: the watchdog watches the flag the session effect sets and only
\* the end of a pre-roll clears
watchdogWhileBuffering(s) ==
  IF ~connected \/ status # "connected" THEN [s EXCEPT !.event = "idle"]
  ELSE IF Len(s.queue) = 0 /\ s.sinceActivity > IdleMs /\ ~s.shouldBuffer
  THEN [setLastActivity(s) EXCEPT !.turns = <<addTurn(Filler)>>,
                                  !.event = "filler"]
  ELSE [s EXCEPT !.event = "idle"]

\* a slip: >= where > is meant
watchdogAtThreshold(s) ==
  IF ~connected \/ status # "connected" THEN [s EXCEPT !.event = "idle"]
  ELSE IF Len(s.queue) = 0 /\ s.sinceActivity >= IdleMs /\ ~s.isProcessing
  THEN [setLastActivity(s) EXCEPT !.turns = <<addTurn(Filler)>>,
                                  !.event = "filler"]
  ELSE [s EXCEPT !.event = "idle"]

watchdog(s) ==
  IF ~connected \/ status # "connected" THEN [s EXCEPT !.event = "idle"]
  ELSE IF Len(s.queue) = 0 /\ s.sinceActivity > IdleMs /\ ~s.isProcessing
  THEN [setLastActivity(s) EXCEPT !.turns = <<addTurn(Filler)>>,
                                  !.event = "filler"]
  ELSE [s EXCEPT !.event = "idle"]

(***************************************************************************)
(* The session effect: the reset at its head.                              *)
(***************************************************************************)
\* a slip: isProcessingRef not cleared by the reset
sessionResetKeepsFlag(s) ==
  [setLastActivity(s) EXCEPT
            !.queue = <<>>,
            !.shouldBuffer = TRUE,
            !.loops = [k \in LoopKinds |->
                         IF k[2] THEN @[<<k[1], FALSE>>] + @[<<k[1], TRUE>>] ELSE 0],
            !.appended = 0,
            !.dispatched = <<>>,
            !.prerolls = 0,
            !.buffered = FALSE,
            !.failed = FALSE,
            !.event = "reset"]

\* a slip: queueRef not emptied by the reset
sessionResetKeepsQueue(s) ==
  [setLastActivity(s) EXCEPT
            !.isProcessing = FALSE,
            !.shouldBuffer = TRUE,
            !.loops = [k \in LoopKinds |->
                         IF k[2] THEN @[<<k[1], FALSE>>] + @[<<k[1], TRUE>>] ELSE 0],
            !.prerolls = 0,
            !.buffered = FALSE,
            !.failed = FALSE,
            !.event = "reset"]

\* a slip: shouldBufferRef not set by the reset
sessionResetKeepsBuffer(s) ==
  [setLastActivity(s) EXCEPT
            !.queue = <<>>,
            !.isProcessing = FALSE,
            !.loops = [k \in LoopKinds |->
                         IF k[2] THEN @[<<k[1], FALSE>>] + @[<<k[1], TRUE>>] ELSE 0],
            !.appended = 0,
            !.dispatched = <<>>,
            !.prerolls = 0,
            !.buffered = FALSE,
            !.failed = FALSE,
            !.event = "reset"]

sessionReset(s) ==
  [setLastActivity(s) EXCEPT
            !.queue = <<>>,
            !.isProcessing = FALSE,
            !.shouldBuffer = TRUE,
            !.loops = [k \in LoopKinds |->
                         IF k[2] THEN @[<<k[1], FALSE>>] + @[<<k[1], TRUE>>] ELSE 0],
            !.appended = 0,
            !.dispatched = <<>>,
            !.prerolls = 0,
            !.buffered = FALSE,
            !.failed = FALSE,
            !.event = "reset"]

\* a throw of client.send in the loop leaves a re-trigger timer behind
SendOutcomes == IF retrig < MaxTimers THEN BOOLEAN ELSE {TRUE}

\* the step stays within the bounds of the model
Fits(s) == s.event # "overflow" /\ s.appended <= MaxChunks

\* The component has mounted with the channel closed and its effects have
\* run once: the session effect has reset the refs and returned.
InitRefs ==
  /\ connected = FALSE
  /\ queue = <<>>
  /\ isProcessing = FALSE
  /\ shouldBuffer = TRUE
  /\ sinceActivity = 0
  /\ lastProcessedId = 0
  /\ loops = NoLoops
  /\ retrig = 0
  /\ db = NoRecord
  /\ fetches = {}
  /\ carry = FALSE
  /\ appended = 0
  /\ dispatched = <<>>
  /\ prerolls = 0
  /\ buffered = FALSE
  /\ language = "Tagalog (Taglish)"
  /\ detectedLanguage = Null
  /\ failed = FALSE
  /\ turns = <<>>
  /\ event = "none"

\* no iteration of the loop under way
NoIteration == [pc |-> "idle"]

\* segmentText and the loop's iteration are not looked at on their own
InitAside ==
  /\ text = <<>>
  /\ returned = <<>>
  /\ voiceStyle = "dramatic"
  /\ iteration = NoIteration
  /\ tools = <<>>

Init == InitRefs /\ InitAside

\* The channel opens and React commits connected = true: the session effect
\* resets, sets up the worker and the subscription and calls fetchLatest().
Connect ==
  /\ ~connected
  /\ connected' = TRUE
  /\ Commit(sessionReset(Cur))
  /\ carry' = (Pending(loops) > 0)
  /\ fetches' = IF db # NoRecord THEN fetches \cup {db} ELSE fetches
  /\ UNCHANGED db

\* The channel closes and React commits connected = false: the cleanup
\* terminates the worker and removes the subscription, the session effect
\* resets and returns.
Disconnect ==
  /\ connected
  /\ connected' = FALSE
  /\ Commit(sessionReset(Cur))
  /\ carry' = (Pending(loops) > 0)
  /\ UNCHANGED <<db, fetches>>

\* the worker's tick: fetchLatest() issues the query
PollTick ==
  /\ connected
  /\ db # NoRecord
  /\ db \notin fetches
  /\ fetches' = fetches \cup {db}
  /\ Commit(Cur)
  /\ UNCHANGED <<connected, db, carry>>

\* a query of fetchLatest() returns its row
FetchReturn ==
  \E data \in fetches, ok \in SendOutcomes :
    LET s == processNewData(Cur, data, ok)
    IN /\ Fits(s)
       /\ fetches' = fetches \ {data}
       /\ Commit(s)
       /\ UNCHANGED <<connected, db, carry>>

\* a query of fetchLatest() fails
FetchError ==
  \E data \in fetches :
    /\ fetches' = fetches \ {data}
    /\ Commit(Cur)
    /\ UNCHANGED <<connected, db, carry>>

\* the upstream table is written; the subscription's callback, when there
\* is a subscription, runs with the new row
UpstreamWrite ==
  \E data \in Records, ok \in SendOutcomes :
    LET s == IF connected THEN processNewData(Cur, data, ok) ELSE Cur
    IN /\ data # db
       /\ Fits(s)
       /\ db' = data
       /\ Commit(s)
       /\ UNCHANGED <<connected, fetches, carry>>

\* setTimeout(processQueueLoop, 50) fires
RetriggerFire ==
  \E ok \in BOOLEAN :
    LET s == processQueueLoop([Cur EXCEPT !.retrig = @ - 1], ok)
    IN /\ retrig > 0
       /\ Fits(s)
       /\ Commit(s)
       /\ UNCHANGED <<connected, db, fetches, carry>>

\* the pre-roll timer of a loop instance fires
PreRollResume ==
  \E pc \in {"preroll", "prerollLate"}, stale \in BOOLEAN, ok \in SendOutcomes :
    /\ loops[<<pc, stale>>] > 0
    /\ Commit(afterPreRoll([Cur EXCEPT !.loops = Resume(@, pc, stale)], stale, ok))
    /\ UNCHANGED <<connected, db, fetches, carry>>

\* the pacing timer of a loop instance fires
PacingResume ==
  \E stale \in BOOLEAN, ok \in SendOutcomes :
    /\ loops[<<"pacing", stale>>] > 0
    /\ Commit(whileLoop([Cur EXCEPT !.loops = Resume(@, "pacing", stale)], stale, ok))
    /\ UNCHANGED <<connected, db, fetches, carry>>

\* the watchdog's interval fires
WatchdogTick ==
  /\ Commit(watchdog(Cur))
  /\ UNCHANGED <<connected, db, fetches, carry>>

\* Quantum ms pass; the clock does not pass the threshold before the
\* pre-roll timers due by then have fired
Tick ==
  /\ sinceActivity = IdleMs => loops[<<"preroll", FALSE>>] + loops[<<"preroll", TRUE>>] = 0
  /\ Commit([Cur EXCEPT !.sinceActivity = IF @ > IdleMs THEN @ ELSE @ + Quantum])
  /\ UNCHANGED <<connected, db, fetches, carry>>

Next ==
  \/ Connect
  \/ Disconnect
  \/ PollTick
  \/ FetchReturn
  \/ FetchError
  \/ UpstreamWrite
  \/ RetriggerFire
  \/ PreRollResume
  \/ PacingResume
  \/ WatchdogTick
  \/ Tick

Spec == Init /\ [][Next]_vars

(***************************************************************************)
(* The specification with the scheduling of the timers: the clock          *)
(* advances, and the watchdog's interval keeps firing.                     *)
(***************************************************************************)
LiveSpec == Spec /\ WF_vars(Tick) /\ WF_vars(WatchdogTick)

(***************************************************************************)
(* Properties.                                                             *)
(***************************************************************************)
\* the channel is open, nothing is queued and no loop instance is pending
Silent == connected /\ Len(queue) = 0 /\ Pending(loops) = 0

\* C1: at most one body of the dispatch loop is active at a time, whatever
\* the interleaving of deliveries, re-triggers and session resets, also when
\* a reset runs while an instance is suspended.
C1_AtMostOneLoopBody == Pending(loops) <= 1

\* C2: while isProcessing is true a call of the loop's entry point changes
\* nothing and sends nothing, and within one connection - no instance left
\* from before the last reset - exactly one loop body stays active however
\* many such calls are made.
C2_RedundantStartIsNoOp ==
  /\ isProcessing =>
       \A ok \in BOOLEAN : processQueueLoop(Cur, ok) = [Cur EXCEPT !.event = "busy"]
  /\ (event = "busy" /\ ~carry) => (isProcessing /\ Pending(loops) = 1)

\* a call of the entry point has returned at the guard, in a connection
\* with no instance left from before it
C2_Witness == event = "busy" /\ ~carry /\ connected

\* C3: within one connection the entries are sent in the order they were
\* appended: the k-th entry sent is the k-th entry appended, and what is
\* still queued is the rest, in order.
C3_DispatchOrder ==
  /\ \A k \in 1..Len(dispatched) : dispatched[k].sent.n = k
  /\ Len(queue) = appended - Len(dispatched)
  /\ \A j \in 1..Len(queue) : queue[j].n = Len(dispatched) + j

\* the two chunks of one row, then the chunk of a later row, all sent
C3_Witness ==
  /\ Len(dispatched) = 3
  /\ dispatched[1].sent.id = 2
  /\ dispatched[2].sent.id = 2
  /\ dispatched[3].sent.id = 1

\* C4: no entry is sent twice when the send returns, and the entry the
\* loop removes is the one it has just sent, also when two instances
\* overlap after a reconnect.
C4_NoDoubleDispatch ==
  /\ \A j, k \in 1..Len(dispatched) : j # k => dispatched[j].sent # dispatched[k].sent
  /\ \A k \in 1..Len(dispatched) : dispatched[k].shifted = dispatched[k].sent
  /\ \A j \in 1..Len(queue), k \in 1..Len(dispatched) : queue[j] # dispatched[k].sent

\* two instances overlap after a reconnect and two entries have been sent
C4_Witness == carry /\ Pending(loops) >= 2 /\ Len(dispatched) >= 2

\* C5: in a connection in which an entry is sent, the pre-roll suspension
\* is entered exactly once, also when an instance or a query from before
\* the connection is still pending when it begins.
C5_OnePreRollPerConnection == Len(dispatched) > 0 => prerolls = 1

\* C6: in every connection no entry is sent before a pre-roll suspension
\* that began after the connection's reset has ended.
C6_PreRollBeforeFirstSend == Len(dispatched) > 0 => buffered

\* C7: the watchdog sends no filler while the queue is non-empty.
C7_NoFillerWhileQueued == event = "filler" => Len(queue) = 0

\* the watchdog has fired on an open channel with entries queued and the
\* clock past the threshold, and has sent nothing
C7_Witness ==
  event = "idle" /\ connected /\ Len(queue) > 0 /\ sinceActivity > IdleMs

\* C8: the watchdog sends no filler while an instance of the loop is
\* active, an instance suspended across a session reset included.
C8_NoFillerWhileLoopActive == event = "filler" => Pending(loops) = 0

C10_NoDeadAir == Silent ~> (event = "filler" \/ ~Silent)

\* a filler has been sent to fill the silence after the entries of a row
C10_Witness == event = "filler" /\ Silent /\ lastProcessedId # 0 /\ ~carry

(***************************************************************************)
(* The specification with the scheduling of the loop's timers: a pending   *)
(* pre-roll, pacing or re-trigger timer fires.  The loop does not read the *)
(* activity clock, so the clock stands still here and the watchdog, which  *)
(* sends only when the clock is past the threshold, is left out.           *)
(***************************************************************************)
DeliveryNext ==
  \/ Connect
  \/ Disconnect
  \/ PollTick
  \/ FetchReturn
  \/ FetchError
  \/ UpstreamWrite
  \/ RetriggerFire
  \/ PreRollResume
  \/ PacingResume

DeliverySpec ==
  /\ Init
  /\ [][DeliveryNext]_vars
  /\ WF_vars(PreRollResume)
  /\ WF_vars(PacingResume)
  /\ WF_vars(RetriggerFire)

\* C11: with the loop's timers firing, while the channel stays open and no
\* send throws, every queued entry is sent in the end, whenever it was
\* appended: the queue drains and what was appended has been sent.
C11_EventualDelivery ==
  (connected /\ Len(queue) > 0)
    ~> (\/ ~connected
        \/ event = "throw"
        \/ (Len(queue) = 0 /\ Len(dispatched) = appended))

\* every entry of two rows, the second appended with the loop under way,
\* has been sent
C11_Witness ==
  /\ connected /\ ~carry /\ ~failed
  /\ appended = MaxChunks /\ Len(dispatched) = appended /\ Len(queue) = 0

\* C12: neither the loop nor the watchdog calls send while the channel is
\* not connected.
C12_SendOnlyWhenConnected ==
  event \in SendEvents \cup {"throw", "filler"} => status = "connected"

\* the loop has run to its end on a closed channel and left a row's
\* entries queued
C12_Witness ==
  ~connected /\ Len(queue) > 0 /\ ~isProcessing /\ Pending(loops) = 0 /\ retrig = 0

\* C13: an instance of the loop that is suspended when the channel
\* disconnects sends nothing after it resumes, also when the channel has
\* reconnected by then.  (Every such instance is stale.)
C13_StaleLoopSendsNothing == event \notin {"staleSent", "staleResent"}

\* C18: when send throws in an iteration, the instance ends without
\* passing the failure on and isProcessing is false after it, so that the
\* next row that is enqueued starts a new instance.
C18_ThrowReleasesFlag ==
  event = "throw" =>
    /\ ~isProcessing
    /\ \A data \in Records :
         data.id # lastProcessedId =>
           LET s == processNewData(Cur, data, TRUE)
           IN s.isProcessing /\ Pending(s.loops) = Pending(loops) + 1

\* a send has thrown and the flag is released
C18_Witness == event = "throw" /\ ~isProcessing /\ Len(queue) > 0 /\ ~carry

\* C19: a send that throws is only logged and never retried: send is not
\* called again for the entry.
C19_NeverRetried == event \notin {"resent", "staleResent"}

\* C19 as it holds: a send that throws is only logged and the entry is not
\* removed; it stays at the head of the queue and the loop is re-triggered,
\* and the re-triggered instance calls send for it again (after the
\* pre-roll, when one is due).
C19_FailedEntryStaysQueued ==
  /\ failed => Len(queue) > 0
  /\ event = "throw" =>
       /\ failed /\ retrig > 0
       /\ LET s == processQueueLoop([Cur EXCEPT !.retrig = @ - 1], TRUE)
          IN \/ s.event = "resent"
             \/ shouldBuffer /\ Pending(s.loops) = Pending(loops) + 1

\* the entry whose send threw is still at the head of the queue, steps later
C19_Witness == failed /\ Len(queue) > 0 /\ event = "idle" /\ connected

\* C20: right after every connect the queue is empty, isProcessing is
\* false, shouldBuffer is true and the activity clock reads now.
C20_ResetOnConnect ==
  (event = "reset" /\ connected) =>
    (queue = <<>> /\ ~isProcessing /\ shouldBuffer /\ sinceActivity = 0)

\* a reconnect, with a row in the table and an instance left from before
C20_Witness == event = "reset" /\ connected /\ carry /\ lastProcessedId # 0

(***************************************************************************)
(* The ingestion on its own: rows that say a language reach processNewData *)
(* in any order, by a poll response or a push notification, while the      *)
(* channel is open, and the user picks a language in the settings, whose   *)
(* select is disabled while the channel is open.                           *)
(***************************************************************************)
IngestDeliver ==
  \E data \in IngestRecords :
    LET s == processNewData(Cur, data, TRUE)
    IN /\ connected
       /\ Fits(s)
       /\ Commit(s)
       /\ UNCHANGED <<connected, db, fetches, carry>>

SelectLanguage ==
  \E l \in LanguageChoices :
    /\ ~connected
    /\ l # language
    /\ Commit([Cur EXCEPT !.language = l])
    /\ UNCHANGED <<connected, db, fetches, carry>>

IngestNext ==
  \/ Connect
  \/ Disconnect
  \/ IngestDeliver
  \/ SelectLanguage
  \/ RetriggerFire
  \/ PreRollResume
  \/ PacingResume

IngestSpec == Init /\ [][IngestNext]_vars

\* the entries appended since the session effect last ran, sent or queued
Appended == [k \in 1..Len(dispatched) |-> dispatched[k].sent] \o queue

\* C14: two deliveries in a row of a record with the same id, by the poll
\* and the push in either order (both hand the row to processNewData),
\* append its chunks once.
C14_SameIdTwiceAppendsOnce ==
  \A data \in IngestRecords, ok1, ok2 \in BOOLEAN :
    LET s1 == processNewData(Cur, data, ok1)
        s2 == processNewData([s1 EXCEPT !.event = "none"], data, ok2)
    IN /\ s2.queue = s1.queue
       /\ s2.appended = s1.appended
       /\ s2.appended - appended \in {0, Len(segmentText(textToRead(data)))}

\* the second of two deliveries of a row has been absorbed, its chunk
\* appended once
C14_Witness ==
  /\ event = "duplicate" /\ connected
  /\ Len(Appended) = 1 /\ Appended[1].id = lastProcessedId

\* C15: once a record id has been processed in a session, a later delivery
\* of that id appends nothing, whatever was processed in between: no chunk
\* of a record is appended twice in a session.
C15_NoChunkAppendedTwice ==
  \A i, j \in 1..Len(Appended) :
    i # j => ~(Appended[i].id = Appended[j].id /\ Appended[i].k = Appended[j].k)

\* C16: handling a record whose id is the last processed id changes
\* nothing: not the queue, the activity clock, the last processed id, the
\* configured language or the detected-language label.
C16_DuplicateIsNoOp ==
  connected =>
    \A data \in IngestRecords :
      data.id = lastProcessedId =>
        LET s == processNewData(Cur, data, TRUE)
        IN /\ s.queue = queue
           /\ s.sinceActivity = sinceActivity
           /\ s.lastProcessedId = lastProcessedId
           /\ s.language = language
           /\ s.detectedLanguage = detectedLanguage

\* C17: the last processed id becomes a record's id only when chunks of
\* the record were appended; a record that enqueues nothing leaves it as it
\* was.
C17_IdSetOnlyWhenEnqueued ==
  connected =>
    \A data \in IngestRecords :
      LET s == processNewData(Cur, data, TRUE)
      IN s.lastProcessedId # lastProcessedId => s.appended > appended

\* C21: nothing is carried over a connect: an entry that was queued before
\* the channel opened is never sent after it.  Every run of the session
\* effect flips `connected`, so an entry that outlived one would say a
\* state of the channel that is not the present one.
C21_NoCarryOver ==
  /\ \A j \in 1..Len(queue) : queue[j].open = connected
  /\ \A k \in 1..Len(dispatched) : dispatched[k].sent.open = connected
  /\ Len(dispatched) + Len(queue) = appended

\* an instance of the loop that was pending when the channel opened has
\* sent an entry since
C21_Witness == connected /\ carry /\ event = "staleSent" /\ Len(dispatched) > 0

\* C22: after every connect, when the table holds a row with text, the
\* query the session effect issues at once brings the row's chunks into the
\* queue of the new session, also when the row was processed in an earlier
\* session and the table has not changed since.
C22_RefetchEnqueues ==
  (event = "reset" /\ connected /\ db # NoRecord) =>
    /\ db \in fetches
    /\ processNewData(Cur, db, TRUE).queue
         = Chunks(Cur, db, segmentText(textToRead(db)))

\* C23: when the target language of a row causes no switch - it is absent,
\* not supported, or the configured language already - and the row's source
\* language label is present and supported, the detected-language label
\* becomes that label and the configured language stays.
C23_LabelRecorded ==
  connected =>
    \A data \in IngestRecords :
      LET noSwitch == \/ data.target_language = Null
                      \/ data.target_language \notin SUPPORTED_LANGUAGES
                      \/ data.target_language = language
          s == processNewData(Cur, data, TRUE)
      IN (/\ noSwitch
          /\ data.source_lang_label # Null
          /\ data.source_lang_label \in SUPPORTED_LANGUAGES)
           => (s.detectedLanguage = data.source_lang_label /\ s.language = language)

(***************************************************************************)
(* segmentText on its own: called once on a text of up to MaxSentences     *)
(* sentences, whose lengths lie about the two limits.                      *)
(***************************************************************************)
SentenceLens ==
  {3, SOFT_LIMIT, SOFT_LIMIT + 1, HARD_LIMIT - SOFT_LIMIT, HARD_LIMIT + 1}

Sentences ==
  {Blank, Sentence(3, TRUE, FALSE)}
    \cup {Sentence(l, FALSE, spk) : l \in SentenceLens, spk \in BOOLEAN}

Texts == UNION {[1..n -> Sentences] : n \in 0..MaxSentences}

SegmentInit ==
  /\ InitRefs
  /\ text \in Texts
  /\ returned = <<>>
  /\ voiceStyle = "dramatic"
  /\ iteration = NoIteration
  /\ tools = <<>>

Segment ==
  /\ event = "none"
  /\ returned' = segmentText(text)
  /\ event' = "segmented"
  /\ UNCHANGED <<connected, queue, isProcessing, shouldBuffer, sinceActivity,
                 lastProcessedId, loops, retrig, db, fetches, language,
                 detectedLanguage, text, voiceStyle, iteration, carry, appended,
                 dispatched, prerolls, buffered, failed, turns, tools>>

SegmentSpec == SegmentInit /\ [][Segment]_vars

\* the sentences of a text that are not white space, trimmed
RECURSIVE Clean(_)
Clean(txt) ==
  IF txt = <<>> THEN <<>>
  ELSE IF Head(txt).len = 0 THEN Clean(Tail(txt))
  ELSE <<trim(Head(txt))>> \o Clean(Tail(txt))

\* the sentences of a sequence of chunks, in order
RECURSIVE Flatten(_)
Flatten(cs) == IF cs = <<>> THEN <<>> ELSE Head(cs) \o Flatten(Tail(cs))

\* C24: no chunk of segmentText is longer than the hard limit unless it is
\* one sentence of the text; the spaces that join the sentences of a chunk
\* count.
C24_HardLimit ==
  event = "segmented" =>
    \A k \in 1..Len(returned) :
      ChunkLen(returned[k]) <= HARD_LIMIT \/ Len(returned[k]) = 1

\* C25: a speaker change always flushes: every sentence that matches the
\* speaker prefix is the first sentence of the chunk that holds it, however
\* short the buffer before it, and every such sentence of the text is in a
\* chunk.
C25_SpeakerStartsChunk ==
  event = "segmented" =>
    /\ \A k \in 1..Len(returned) :
         \A j \in 2..Len(returned[k]) : ~returned[k][j].spk
    /\ Cardinality({k \in 1..Len(returned) : returned[k][1].spk})
         = Cardinality({j \in 1..Len(text) : text[j].spk})

\* a speaker's sentence after three characters of buffer begins the second
\* chunk
C25_Witness ==
  /\ event = "segmented" /\ Len(text) >= 2 /\ Len(returned) >= 2
  /\ text[1].len = 3 /\ ~text[1].spk /\ text[2].spk
  /\ returned[1] = <<trim(text[1])>> /\ returned[2][1] = text[2]

\* C26: segmentText splits, drops, repeats and reorders no sentence: the
\* chunks joined by single spaces are the trimmed sentences of the text that
\* are not white space, joined by single spaces, and a sentence longer than
\* the hard limit is a chunk of its own.
C26_SentencesPreserved ==
  event = "segmented" =>
    /\ Flatten(returned) = Clean(text)
    /\ \A k \in 1..Len(returned) :
         \A j \in 1..Len(returned[k]) :
           returned[k][j].len > HARD_LIMIT => Len(returned[k]) = 1

\* a sentence longer than the hard limit between two short ones
C26_Witness ==
  /\ event = "segmented" /\ Len(text) = 3 /\ Len(returned) = 3
  /\ text[1].len = 3 /\ text[2].len > HARD_LIMIT /\ text[3].len = 3
  /\ returned[2] = <<text[2]>>

\* C27: segmentText returns the empty sequence for the empty text and for
\* a text of white space, and every chunk it returns is non-empty and has no
\* white space at either end.
C27_NoEmptyChunk ==
  event = "segmented" =>
    /\ (\A j \in 1..Len(text) : text[j].len = 0) => returned = <<>>
    /\ \A k \in 1..Len(returned) :
         /\ ChunkLen(returned[k]) > 0
         /\ \A j \in 1..Len(returned[k]) :
              returned[k][j].len > 0 /\ ~returned[k][j].pad

\* white space, then a sentence with white space about it
C27_Witness ==
  /\ event = "segmented" /\ Len(text) = 2
  /\ text[1].len = 0 /\ text[2].len > 0 /\ text[2].pad
  /\ returned = <<<<trim(text[2])>>>>

\* C28: between a send - of an entry or of a filler - an enqueue or a
\* reset and the next filler, more than the idle threshold passes: a
\* filler is sent only with the clock past the threshold, each of those
\* steps sets the clock to now, and nothing but the passing of time moves
\* the reading of the clock forward.
C28_FullThresholdBeforeFiller ==
  [][/\ event' = "filler" => sinceActivity > IdleMs
     /\ (\/ Len(dispatched') > Len(dispatched)
         \/ appended' > appended
         \/ event' \in {"filler", "reset"}) => sinceActivity' = 0
     /\ sinceActivity' \in {0, sinceActivity, sinceActivity + Quantum}
     /\ sinceActivity' > sinceActivity =>
          (queue' = queue /\ dispatched' = dispatched /\ event' = "none")]_vars

\* a filler has been sent after every entry of the session was sent
C28_Witness ==
  /\ event = "filler" /\ sinceActivity = 0
  /\ appended > 0 /\ Len(dispatched) = appended

\* C29: after a disconnect nothing is appended to the queue until the next
\* connect, also when a query issued before the disconnect returns after
\* the worker and the subscription were torn down.
C29_NoAppendWhileDisconnected == ~connected => (appended = 0 /\ queue = <<>>)

\* C30: the queue is never stuck: whenever the channel is open and the
\* queue is not empty, an instance of the loop is under way or a start of
\* one is scheduled.
C30_NoStuckQueue ==
  (connected /\ Len(queue) > 0) => (Pending(loops) > 0 \/ retrig > 0)

\* a send has thrown and the instance has ended: the queue is not empty
\* and only the re-trigger timer stands between it and a standstill
C30_Witness ==
  connected /\ Len(queue) > 0 /\ Pending(loops) = 0 /\ retrig > 0 /\ ~isProcessing

\* the pending instances that started after the session effect last ran
Fresh(l) ==
  l[<<"preroll", FALSE>>] + l[<<"prerollLate", FALSE>>] + l[<<"pacing", FALSE>>]

\* C31: the flag never leaks: whenever isProcessing is true an instance of
\* the loop has started and has not run its finally block; the reset clears
\* the flag, so the instance is one that started after it.
C31_FlagMeansInstance == isProcessing => (Pending(loops) > 0 /\ Fresh(loops) > 0)

\* the flag is true with an instance from before the reset and one from
\* after it both pending
C31_Witness == isProcessing /\ connected /\ carry /\ Pending(loops) = 2

\* C32: processNewData changes the configured language only when the
\* row's target language is present, supported and not the configured one,
\* and then sets the language and the detected label to it; neither the
\* language nor the detected label is ever set to a language that is not
\* supported.
C32_SwitchOnlyToSupported ==
  /\ language \in SUPPORTED_LANGUAGES
  /\ detectedLanguage \in SUPPORTED_LANGUAGES \cup {Null}
  /\ connected =>
       \A data \in IngestRecords :
         LET s == processNewData(Cur, data, TRUE)
             switch == /\ data.target_language # Null
                       /\ data.target_language \in SUPPORTED_LANGUAGES
                       /\ data.target_language # language
         IN /\ s.language # language => switch
            /\ switch => /\ s.language = data.target_language
                         /\ s.detectedLanguage = data.target_language
            /\ s.language \in SUPPORTED_LANGUAGES
            /\ s.detectedLanguage \in SUPPORTED_LANGUAGES \cup {Null}

\* the row that names Spanish has switched the language, and the row that
\* names languages the program does not know has been handled after it
C32_Witness ==
  /\ connected /\ lastProcessedId = 3
  /\ language = "Spanish" /\ detectedLanguage = "Spanish"

\* C33: processNewData speaks the translation when it is not empty after
\* trimming and the source text otherwise; a row with neither - no
\* translation but white space, and an empty source text - leaves the queue,
\* the last processed id and the clock as they were and starts no loop.
C33_TextChoice ==
  connected =>
    \A data \in IngestRecords :
      LET s == processNewData(Cur, data, TRUE)
          chosen == IF Clean(data.translated_text) # <<>>
                    THEN data.translated_text ELSE data.source_text
      IN /\ data.id # lastProcessedId =>
              s.appended - appended = Len(segmentText(chosen))
         /\ (Clean(data.translated_text) = <<>> /\ data.source_text = <<>>) =>
              /\ s.queue = queue
              /\ s.lastProcessedId = lastProcessedId
              /\ s.sinceActivity = sinceActivity
              /\ s.loops = loops /\ s.isProcessing = isProcessing

\* the translation of a row has been queued, one chunk where its source
\* text has two, and a row with no text has been ignored after it
C33_Witness ==
  /\ event = "ignored" /\ connected
  /\ lastProcessedId = 2 /\ appended = 1 /\ Len(queue) = 1

\* C34: the chunks of a row are appended in one step: in every queue the
\* chunks of each row are one run without a gap, in the order segmentText
\* gave them, with no chunk of another row among them.
C34_OneRunPerRecord ==
  \A i, j \in 1..Len(queue) :
    (i < j /\ queue[i].id = queue[j].id) =>
      /\ queue[j].k > queue[i].k
      /\ \A m \in i..j : queue[m].id = queue[i].id

\* a chunk without its last sentence
Front(c) == SubSeq(c, 1, Len(c) - 1)

\* C35: segmentText joins no sentence to a buffer that is over the soft
\* limit: a chunk of two sentences or more, without its last sentence, is
\* no longer than SOFT_LIMIT.  The tests for a flush come in the order
\* speaker, hard limit, soft limit, and all three flush alike: a sentence
\* is joined exactly when none of them holds, and it starts a chunk
\* exactly when the buffer is empty or one of them holds.
C35_SoftLimit ==
  event = "segmented" =>
    /\ \A k \in 1..Len(returned) :
         \A j \in 2..Len(returned[k]) :
           LET buffer == SubSeq(returned[k], 1, j - 1)
           IN /\ ChunkLen(buffer) <= SOFT_LIMIT
              /\ ChunkLen(buffer) + returned[k][j].len <= HARD_LIMIT
              /\ ~returned[k][j].spk
    /\ \A k \in 1..Len(returned) :
         Len(returned[k]) >= 2 => ChunkLen(Front(returned[k])) <= SOFT_LIMIT
    /\ \A k \in 2..Len(returned) :
         LET buffer == returned[k - 1]
             first == returned[k][1]
         IN \/ first.spk
            \/ ChunkLen(buffer) + first.len > HARD_LIMIT
            \/ ChunkLen(buffer) > SOFT_LIMIT

\* a sentence joined to a buffer at the soft limit, and the next one kept
\* out of the buffer that is over it
C35_Witness ==
  /\ event = "segmented" /\ Len(text) = 3 /\ Len(returned) = 2
  /\ Len(returned[1]) = 2 /\ returned[1][1].len = SOFT_LIMIT
  /\ ~returned[2][1].spk /\ returned[2][1].len = 3

(***************************************************************************)
(* An iteration of the while loop on its own, from the head of the queue   *)
(* to the pacing timer.  A chunk is known here by whether it begins with a *)
(* speaker prefix, whether it holds a tag, and the number of its words.    *)
(* Math.random() is a number of thousandths.  Times are in units of        *)
(* 1/PerMs of a millisecond, so that wordCount / 3.0 * 1000 and            *)
(* Math.random() * 300 are whole.                                          *)
(***************************************************************************)
PerMs == 30

VoiceStyles == {"natural", "breathy", "dramatic", "aggressive"}

RawTexts ==
  [isDialogue : BOOLEAN, hasSSML : BOOLEAN, words : 1..MaxWords]

Randoms == {0, 800, 801, 999}

\* a slip: the ad-lib put before any chunk
scriptTextAnyChunk(rawText, style, random) ==
  IF style = "breathy" /\ random > 800
  THEN [laugh |-> TRUE, rawText |-> rawText]
  ELSE [laugh |-> FALSE, rawText |-> rawText]

\* scriptedText: rawText, or rawText after "[laugh] "
scriptText(rawText, style, random) ==
  IF ~rawText.isDialogue /\ ~rawText.hasSSML /\ style = "breathy" /\ random > 800
  THEN [laugh |-> TRUE, rawText |-> rawText]
  ELSE [laugh |-> FALSE, rawText |-> rawText]

\* text.split(/\s+/).length; the ad-lib is one word more
wordCount(scripted) == scripted.rawText.words + (IF scripted.laugh THEN 1 ELSE 0)

readTime(words) == (words * 1000 * PerMs) \div 3

\* a slip: the style looked at after the dialogue
bufferBaseStyleLast(rawText, style) ==
  IF style = "dramatic" THEN 2000 * PerMs
  ELSE IF rawText.isDialogue THEN 200 * PerMs
  ELSE 500 * PerMs

bufferBase(rawText, style) ==
  IF rawText.isDialogue THEN 200 * PerMs
  ELSE IF style = "dramatic" THEN 2000 * PerMs
  ELSE 500 * PerMs

bufferTime(rawText, style, random) ==
  bufferBase(rawText, style) + (random * 300 * PerMs) \div 1000

PaceInit ==
  /\ InitRefs
  /\ text = <<>>
  /\ returned = <<>>
  /\ voiceStyle \in VoiceStyles
  /\ \E rawText \in RawTexts :
       iteration = [pc |-> "while", queue |-> <<rawText>>]
  /\ tools = <<>>

\* from the head of the while loop to the pacing await
Iterate ==
  \E laughs, jitter \in Randoms :
    LET rawText == iteration.queue[1]
        style == voiceStyle
        scriptedText == scriptText(rawText, style, laughs)
    IN /\ iteration.pc = "while"
       /\ iteration' =
            [pc |-> "pacing",
             style |-> style,
             laughs |-> laughs,
             sent |-> scriptedText,
             shifted |-> shift(iteration.queue).item,
             queue |-> shift(iteration.queue).rest,
             delay |-> readTime(wordCount([laugh |-> FALSE, rawText |-> rawText]))
                       + bufferTime(rawText, style, jitter),
             elapsed |-> 0]
       /\ UNCHANGED <<connected, queue, isProcessing, shouldBuffer, sinceActivity,
                      lastProcessedId, loops, retrig, db, fetches, language,
                      detectedLanguage, text, returned, voiceStyle, carry,
                      appended, dispatched, prerolls, buffered, failed, turns, tools,
                   event>>

\* the user picks another style while the loop waits
SelectStyle ==
  \E style \in VoiceStyles :
    /\ iteration.pc = "pacing"
    /\ style # voiceStyle
    /\ voiceStyle' = style
    /\ UNCHANGED <<connected, queue, isProcessing, shouldBuffer, sinceActivity,
                   lastProcessedId, loops, retrig, db, fetches, language,
                   detectedLanguage, text, returned, iteration, carry,
                   appended, dispatched, prerolls, buffered, failed, turns, tools,
                   event>>

\* the pacing timer fires, when it is due or a millisecond late, and the
\* loop is at its head again
PacingTimerFires ==
  \E late \in {0, PerMs} :
    /\ iteration.pc = "pacing"
    /\ iteration' = [iteration EXCEPT !.pc = "resumed",
                                       !.elapsed = iteration.delay + late]
    /\ UNCHANGED <<connected, queue, isProcessing, shouldBuffer, sinceActivity,
                   lastProcessedId, loops, retrig, db, fetches, language,
                   detectedLanguage, text, returned, voiceStyle, carry,
                   appended, dispatched, prerolls, buffered, failed, turns, tools,
                   event>>

PaceNext == Iterate \/ SelectStyle \/ PacingTimerFires

PaceSpec == PaceInit /\ [][PaceNext]_vars

\* C36: a chunk that begins with a speaker prefix or holds a tag is sent
\* as it is under every style; the ad-lib changes the text that is sent
\* and not the chunk in the queue, which is removed as it was, and the
\* pacing delay comes from the words of the chunk, not of the text sent.
C36_Verbatim ==
  iteration.pc \in {"pacing", "resumed"} =>
    LET rawText == iteration.shifted
        sent == iteration.sent
    IN /\ (rawText.isDialogue \/ rawText.hasSSML) => ~sent.laugh
       /\ sent.rawText = rawText
       /\ iteration.queue = <<>>
       /\ iteration.delay >= readTime(rawText.words)
                              + bufferBase(rawText, iteration.style)
       /\ iteration.delay < readTime(rawText.words + 1)
                             + bufferBase(rawText, iteration.style)

\* under 'breathy', with the draw for the ad-lib above 0.8, a chunk with a
\* speaker prefix has been sent as it is
C36_Witness ==
  /\ iteration.pc = "pacing" /\ iteration.style = "breathy"
  /\ iteration.laughs > 800
  /\ iteration.shifted.isDialogue /\ ~iteration.sent.laugh

\* C37: the wait after a send is at least wordCount / 3 * 1000 ms plus the
\* base delay and less than that plus 300 ms; the base delay is 200 ms for
\* a chunk with a speaker prefix under every style, else 2000 ms under
\* 'dramatic' and 500 ms under any other style; and the loop is not at its
\* head again before the wait is over.
C37_PacingDelay ==
  iteration.pc \in {"pacing", "resumed"} =>
    LET rawText == iteration.shifted
        base == IF rawText.isDialogue THEN 200
                ELSE IF iteration.style = "dramatic" THEN 2000
                ELSE 500
        least == (rawText.words * 1000 * PerMs) \div 3 + base * PerMs
    IN /\ iteration.delay >= least
       /\ iteration.delay < least + 300 * PerMs
       /\ iteration.pc = "resumed" => iteration.elapsed >= iteration.delay

\* a chunk with a speaker prefix under 'dramatic': the loop is at its head
\* again after the read time and 200 ms, not 2000 ms
C37_Witness ==
  /\ iteration.pc = "resumed" /\ iteration.style = "dramatic"
  /\ iteration.shifted.isDialogue
  /\ iteration.elapsed = readTime(iteration.shifted.words) + 200 * PerMs

\* C38: every send of an entry and every send of a filler appends one
\* entry to the turn log, in the order of the sends, and no entry is
\* appended for an utterance whose send did not succeed.
C38_TurnPerSend ==
  /\ Len(turns) = (IF event \in SendEvents \cup {"filler"} THEN 1 ELSE 0)
  /\ event \in SendEvents => turns[1].text = dispatched[Len(dispatched)].sent
  /\ event = "filler" => turns[1].text = Filler

(***************************************************************************)
(* The second DatabaseBridge component of the file (lines 330-585), which  *)
(* arms the pre-roll when chunks are pushed to an empty queue.  It has its *)
(* own segmentText, no activity clock, no watchdog, no test of             *)
(* client.status in the loop and no re-trigger.  `buffered` says here that *)
(* a pre-roll begun after the queue last went from empty to non-empty has  *)
(* ended.  Rows reach its processNewData while the channel is open.        *)
(***************************************************************************)
PairLimit == 200

RECURSIVE foldSentencesVariant(_, _, _)
foldSentencesVariant(sentences, chunks, currentChunk) ==
  IF sentences = <<>>
  THEN IF ChunkLen(currentChunk) > 0 THEN Append(chunks, currentChunk) ELSE chunks
  ELSE LET cleanSentence == trim(Head(sentences))
           rest == Tail(sentences)
           grown == Append(currentChunk, cleanSentence)
           sentenceCount == Len(grown)
       IN IF cleanSentence.len = 0
          THEN foldSentencesVariant(rest, chunks, currentChunk)
          ELSE IF sentenceCount >= 2 \/ ChunkLen(grown) > PairLimit
          THEN foldSentencesVariant(rest, Append(chunks, grown), <<>>)
          ELSE foldSentencesVariant(rest, chunks, grown)

segmentTextVariant(txt) ==
  IF txt = <<>> THEN <<>> ELSE foldSentencesVariant(txt, <<>>, <<>>)

finallyBlockVariant(s) == [s EXCEPT !.isProcessing = FALSE]

whileLoopVariant(s, stale, ok) ==
  IF Len(s.queue) > 0
  THEN LET rawText == s.queue[1]
       IN IF ok
          THEN [s EXCEPT
                  !.dispatched = Append(@, [sent |-> rawText,
                                            shifted |-> shift(s.queue).item]),
                  !.queue = shift(@).rest,
                  !.loops = Suspend(@, "pacing", stale),
                  !.failed = FALSE,
                  !.turns = <<addTurn(rawText)>>,
                  !.event = sendEvent(s, stale)]
          ELSE finallyBlockVariant([s EXCEPT !.failed = TRUE,
                                             !.turns = <<addTurn(rawText)>>,
                                             !.event = "throw"])
  ELSE finallyBlockVariant(s)

processQueueLoopVariant(s, ok) ==
  IF s.isProcessing THEN [s EXCEPT !.event = "busy"]
  ELSE IF Pending(s.loops) >= MaxLoops THEN [s EXCEPT !.event = "overflow"]
  ELSE LET s1 == [s EXCEPT !.isProcessing = TRUE]
       IN IF s1.shouldBuffer
          THEN [s1 EXCEPT !.loops = Suspend(@, "preroll", FALSE),
                          !.prerolls = IF @ < 2 THEN @ + 1 ELSE @]
          ELSE whileLoopVariant(s1, FALSE, ok)

afterPreRollVariant(s, stale, ok) ==
  whileLoopVariant([s EXCEPT !.shouldBuffer = FALSE,
                             !.buffered = @ \/ ~stale], stale, ok)

processNewDataVariant(s0, data, ok) ==
  LET s == detectLanguage(s0, data)
  IN IF textToRead(data) = <<>> THEN [s EXCEPT !.event = "ignored"]
     ELSE IF s.lastProcessedId = data.id THEN [s EXCEPT !.event = "duplicate"]
     ELSE LET s1 == [s EXCEPT !.lastProcessedId = data.id]
              segments == segmentTextVariant(textToRead(data))
              s2 == IF Len(s1.queue) = 0
                    THEN [s1 EXCEPT !.shouldBuffer = TRUE, !.buffered = FALSE]
                    ELSE s1
          IN IF Len(segments) > 0
             THEN processQueueLoopVariant(
                    [s2 EXCEPT !.queue = @ \o Chunks(s, data, segments),
                               !.appended = @ + Len(segments),
                               !.event = "pushed"], ok)
             ELSE s1

sessionResetVariant(s) ==
  [s EXCEPT !.queue = <<>>,
            !.isProcessing = FALSE,
            !.shouldBuffer = FALSE,
            !.loops = [k \in LoopKinds |->
                         IF k[2] THEN @[<<k[1], FALSE>>] + @[<<k[1], TRUE>>] ELSE 0],
            !.appended = 0,
            !.dispatched = <<>>,
            !.prerolls = 0,
            !.buffered = FALSE,
            !.failed = FALSE,
            !.event = "reset"]

\* the variant has mounted with the channel closed
VariantInit ==
  /\ InitAside
  /\ \E s \in {sessionResetVariant(
                  [queue |-> <<>>, isProcessing |-> FALSE, shouldBuffer |-> FALSE,
                   sinceActivity |-> 0, lastProcessedId |-> 0, loops |-> NoLoops,
                   retrig |-> 0, appended |-> 0, language |-> "Tagalog (Taglish)",
                   detectedLanguage |-> Null, dispatched |-> <<>>, prerolls |-> 0,
                   buffered |-> FALSE, failed |-> FALSE, turns |-> <<>>,
                   event |-> "none"])} :
       /\ queue = s.queue /\ isProcessing = s.isProcessing
       /\ shouldBuffer = s.shouldBuffer /\ sinceActivity = s.sinceActivity
       /\ lastProcessedId = s.lastProcessedId /\ loops = s.loops
       /\ retrig = s.retrig /\ appended = s.appended
       /\ language = s.language /\ detectedLanguage = s.detectedLanguage
       /\ dispatched = s.dispatched /\ prerolls = s.prerolls
       /\ buffered = s.buffered /\ failed = s.failed /\ turns = s.turns
       /\ event = "none"
  /\ connected = FALSE
  /\ db = NoRecord
  /\ fetches = {}
  /\ carry = FALSE

VariantConnect ==
  /\ ~connected
  /\ connected' = TRUE
  /\ Commit(sessionResetVariant(Cur))
  /\ carry' = (Pending(loops) > 0)
  /\ UNCHANGED <<db, fetches>>

VariantDisconnect ==
  /\ connected
  /\ connected' = FALSE
  /\ Commit(sessionResetVariant(Cur))
  /\ carry' = (Pending(loops) > 0)
  /\ UNCHANGED <<db, fetches>>

VariantDeliver ==
  \E data \in Records, ok \in BOOLEAN :
    LET s == processNewDataVariant(Cur, data, ok)
    IN /\ connected
       /\ Fits(s)
       /\ Commit(s)
       /\ UNCHANGED <<connected, db, fetches, carry>>

VariantPreRollResume ==
  \E stale \in BOOLEAN, ok \in BOOLEAN :
    /\ loops[<<"preroll", stale>>] > 0
    /\ Commit(afterPreRollVariant([Cur EXCEPT !.loops = Resume(@, "preroll", stale)],
                                  stale, ok))
    /\ UNCHANGED <<connected, db, fetches, carry>>

VariantPacingResume ==
  \E stale \in BOOLEAN, ok \in BOOLEAN :
    /\ loops[<<"pacing", stale>>] > 0
    /\ Commit(whileLoopVariant([Cur EXCEPT !.loops = Resume(@, "pacing", stale)],
                               stale, ok))
    /\ UNCHANGED <<connected, db, fetches, carry>>

VariantNext ==
  \/ VariantConnect
  \/ VariantDisconnect
  \/ VariantDeliver
  \/ VariantPreRollResume
  \/ VariantPacingResume

VariantSpec == VariantInit /\ [][VariantNext]_vars

\* C39: in the variant, every time chunks are pushed to an empty queue a
\* whole pre-roll passes before the first of them is sent, also when the
\* push comes while the loop waits in the pacing delay after it removed the
\* last chunk.  (Stated for connections with no instance left from before
\* them.)
C39_PreRollAfterEmpty == (event \in SendEvents /\ ~carry) => buffered

(***************************************************************************)
(* useTools (src/lib/state.ts).  A name is a stem and a suffix: suffix 0   *)
(* is the bare stem, suffix k is `stem_k`.  A tool keeps its name and its  *)
(* isEnabled; the other fields play no part in the store's logic.          *)
(***************************************************************************)
MaxTools == 3

ToolName(stem, n) == [stem |-> stem, n |-> n]

ToolNames ==
  {ToolName("new_function", n) : n \in 0..MaxTools} \cup {ToolName("get_weather", 0)}

FunctionCalls == [name : ToolNames, isEnabled : BOOLEAN]

inUse(list, name) == \E i \in 1..Len(list) : list[i].name = name

\* the while loop of addTool: the stem, then stem_1, stem_2, ...
RECURSIVE newToolName(_, _)
newToolName(list, counter) ==
  LET candidate == ToolName("new_function", counter)
  IN IF inUse(list, candidate) THEN newToolName(list, counter + 1) ELSE candidate

addTool(list) ==
  Append(list, [name |-> newToolName(list, 0), isEnabled |-> TRUE])

toggleTool(list, toolName) ==
  [i \in 1..Len(list) |->
     IF list[i].name = toolName
     THEN [list[i] EXCEPT !.isEnabled = ~@] ELSE list[i]]

removeTool(list, toolName) == SelectSeq(list, LAMBDA tool : tool.name # toolName)

nameTaken(list, oldName, updatedTool) ==
  oldName # updatedTool.name /\ inUse(list, updatedTool.name)

updateToolUnguarded(list, oldName, updatedTool) ==
  [i \in 1..Len(list) |-> IF list[i].name = oldName THEN updatedTool ELSE list[i]]

updateTool(list, oldName, updatedTool) ==
  IF nameTaken(list, oldName, updatedTool)
  THEN list
  ELSE [i \in 1..Len(list) |-> IF list[i].name = oldName THEN updatedTool ELSE list[i]]

ToolsInit == InitRefs /\ InitAside

ToolsUnchanged ==
  UNCHANGED <<connected, queue, isProcessing, shouldBuffer, sinceActivity,
              lastProcessedId, loops, retrig, db, fetches, language,
              detectedLanguage, text, returned, voiceStyle, iteration, carry,
              appended, dispatched, prerolls, buffered, failed, turns>>

AddTool ==
  /\ Len(tools) < MaxTools
  /\ tools' = addTool(tools)
  /\ event' = "added"
  /\ ToolsUnchanged

ToggleTool ==
  \E toolName \in ToolNames :
    /\ tools' = toggleTool(tools, toolName)
    /\ event' = "toggled"
    /\ ToolsUnchanged

RemoveTool ==
  \E toolName \in ToolNames :
    /\ tools' = removeTool(tools, toolName)
    /\ event' = "removed"
    /\ ToolsUnchanged

\* "rejected": the rename of a tool of the list was refused at lines 293-299
UpdateTool ==
  \E oldName \in ToolNames, updatedTool \in FunctionCalls :
    /\ tools' = updateTool(tools, oldName, updatedTool)
    /\ event' = IF nameTaken(tools, oldName, updatedTool) /\ inUse(tools, oldName)
                THEN "rejected" ELSE "updated"
    /\ ToolsUnchanged

ToolsNext == AddTool \/ ToggleTool \/ RemoveTool \/ UpdateTool

ToolsSpec == ToolsInit /\ [][ToolsNext]_vars

\* C40: the names of the tools stay pairwise distinct after any sequence of
\* addTool, removeTool, toggleTool and updateTool: addTool picks a name that
\* is not in use, and an updateTool that would rename a tool to the name of
\* another tool leaves the list as it was.
C40_DistinctNames ==
  [][/\ \A i, j \in 1..Len(tools') : tools'[i].name = tools'[j].name => i = j
     /\ event' = "added" => ~inUse(tools, tools'[Len(tools')].name)
     /\ event' = "rejected" => tools' = tools]_vars

\* a rename to the name of another tool has been refused while a tool with
\* a suffixed name is in the list
C40_Witness ==
  /\ event = "rejected"
  /\ Len(tools) >= 2
  /\ inUse(tools, ToolName("new_function", 1))

====
